---- MODULE Spec2Model ----
(***************************************************************************)
(* State-machine model of claude_openrouter_proxy.py: the POST             *)
(* /v1/messages handler (handle_messages), the request translator          *)
(* (claude_to_openrouter_body), the response translator                    *)
(* (openrouter_to_claude), the non-streaming backend path                  *)
(* (handle_non_streaming_request) and the streaming transcoder             *)
(* (handle_streaming_request.generate).                                    *)
(*                                                                         *)
(* JSON values are records with a kind field k; a backend line is a        *)
(* sequence of tokens.  Python exceptions are strings naming the           *)
(* exception class.  The module-level requests.Session that every backend  *)
(* call goes through is the one variable the requests share.               *)
(*                                                                         *)
(* Spec is the gateway handling one request; SpecT the request translator  *)
(* over a wider set of payloads; SpecS the transcoder over a wider set of  *)
(* lines; SpecM requests and replies that name a model; SpecC several      *)
(* requests in flight together.                                            *)
(***************************************************************************)
EXTENDS Integers, Sequences, FiniteSets, TLC

VARIABLES
    pc,        \* per request: position of the request in the gateway
    payload,   \* per request: the raw client payload of POST /v1/messages
    or_body,   \* per request: the translated backend request body
    backend,   \* per request: what the backend does when it is called
    calls,     \* per request: number of session.post calls issued
    conn,      \* per request: state of the backend connection
    gen,       \* per request: position of the generate() generator
    cursor,    \* per request: number of backend lines pulled by iter_lines
    events,    \* per request: stream events handed to the client so far
    status,    \* per request: HTTP status of the response (0: none yet)
    respBody,  \* per request: JSON body of a non-streamed response
    crashed,   \* per request: an exception left the handler uncaught
    sent,      \* per request: the cookies its backend call carried
    session    \* the module-level requests.Session: its cookie jar

vars == <<pc, payload, or_body, backend, calls, conn, gen, cursor, events,
          status, respBody, crashed, sent, session>>

----------------------------------------------------------------------------
(* Bounds *)

NumReqs == 2
MaxLines == 3
MaxTime == 1
MaxBlocks == 2
MaxMsgs == 2
MaxShort == 2

Reqs == 1..NumReqs

----------------------------------------------------------------------------
(* Program constants *)

OPENROUTER_MODEL == "openai/gpt-oss-120b"
ANTHROPIC_MODEL_ID == "claude-sonnet-4-5-20250929"

----------------------------------------------------------------------------
(* Python exceptions: the classes the except clauses tell apart *)

NoExc == "none"

\* subclasses of requests.exceptions.RequestException; resp.json() of
\* requests >= 2.27 raises requests.exceptions.JSONDecodeError, which derives
\* from RequestException and from ValueError ("RequestsJSONDecodeError")
RequestExceptions == {"ConnectionError", "Timeout", "HTTPError",
                      "ChunkedEncodingError", "RequestsJSONDecodeError"}

\* subclasses of ValueError; json.loads and resp.json() of requests < 2.27
\* raise json.JSONDecodeError ("JSONDecodeError")
ValueErrors == {"JSONDecodeError", "RequestsJSONDecodeError"}

\* subclasses of Exception; GeneratorExit derives from BaseException only
Exceptions == RequestExceptions \cup ValueErrors \cup
              {"BadRequest", "AttributeError", "TypeError"}

\* str(e) of an exception
StrOf(e) ==
    CASE e = "ConnectionError"         -> "connection refused"
      [] e = "Timeout"                 -> "read timed out"
      [] e = "HTTPError"               -> "401 Client Error"
      [] e = "ChunkedEncodingError"    -> "connection broken"
      [] e = "JSONDecodeError"         -> "Expecting value"
      [] e = "RequestsJSONDecodeError" -> "Expecting value"
      [] e = "BadRequest"              -> "400 Bad Request"
      [] e = "AttributeError"          -> "object has no attribute 'get'"
      [] e = "TypeError"               -> "unsupported operand type"
      [] OTHER                         -> "?"

----------------------------------------------------------------------------
(* The client's JSON payload *)

EmptyRec == [key \in {} |-> TRUE]

\* a key that the JSON object does not have
Missing == [k |-> "absent"]

Str(s) == [k |-> "str", s |-> s]
Num(n) == [k |-> "num", n |-> n]
Bool(b) == [k |-> "bool", b |-> b]
List(items) == [k |-> "list", items |-> items]
Null == [k |-> "null"]

\* a JSON object: kind "obj" and its keys; a key whose value is Missing is
\* not in the object
TextBlock(t) == [k |-> "obj", type |-> Str("text"), text |-> t]
OtherBlock == [k |-> "obj", type |-> Str("image"), text |-> Missing]
Message(role, content) == [k |-> "obj", role |-> role, content |-> content]
ClientRequest(messages, model, stream, max_tokens, temperature, metadata) ==
    [k |-> "obj", messages |-> messages, model |-> model, stream |-> stream,
     max_tokens |-> max_tokens, temperature |-> temperature,
     metadata |-> metadata]

\* request.get_json() raises on a body that is not JSON
NotJson == [k |-> "notjson"]

\* dict.get(key, default) on a value already looked up
Get(v, default) == IF v = Missing THEN default ELSE v

\* Python truth value of a JSON value
Truthy(v) ==
    CASE v.k = "bool" -> v.b
      [] v.k = "num"  -> v.n # 0
      [] v.k = "str"  -> v.s # ""
      [] v.k = "list" -> v.items # <<>>
      [] v.k = "obj"  -> TRUE
      [] OTHER        -> FALSE

----------------------------------------------------------------------------
(* RequestTranslator: ClaudeOpenRouterProxy.claude_to_openrouter_body *)

\* faulty variant: the text of every block is taken, whatever its type
RECURSIVE FlattenBlocksAll(_, _)
FlattenBlocksAll(blocks, text_content) ==
    IF blocks = <<>> THEN [exc |-> NoExc, content |-> Str(text_content)]
    ELSE LET block == Head(blocks) IN
         IF block.k # "obj"
         THEN [exc |-> "AttributeError", content |-> Str(text_content)]
         ELSE LET text == Get(block.text, Str("")) IN
              IF text.k # "str"
              THEN [exc |-> "TypeError", content |-> Str(text_content)]
              ELSE FlattenBlocksAll(Tail(blocks), text_content \o text.s)

\* the inner loop over the blocks of one message: text_content is the
\* accumulator; the first block that raises ends the loop
RECURSIVE FlattenBlocks(_, _)
FlattenBlocks(blocks, text_content) ==
    IF blocks = <<>> THEN [exc |-> NoExc, content |-> Str(text_content)]
    ELSE LET block == Head(blocks) IN
         IF block.k # "obj"
         THEN [exc |-> "AttributeError", content |-> Str(text_content)]
         ELSE IF block.type = Str("text")
         THEN LET text == Get(block.text, Str("")) IN
              IF text.k # "str"
              THEN [exc |-> "TypeError", content |-> Str(text_content)]
              ELSE FlattenBlocks(Tail(blocks), text_content \o text.s)
         ELSE FlattenBlocks(Tail(blocks), text_content)

\* the loop over the messages: or_messages is the accumulator
RECURSIVE TranslateMessages(_, _)
TranslateMessages(messages, or_messages) ==
    IF messages = <<>> THEN [exc |-> NoExc, or_messages |-> or_messages]
    ELSE LET m == Head(messages) IN
         IF m.k # "obj"
         THEN [exc |-> "AttributeError", or_messages |-> or_messages]
         ELSE LET role == Get(m.role, Str("user"))
                  content == Get(m.content, Str(""))
                  flat == IF content.k = "list"
                          THEN FlattenBlocks(content.items, "")
                          ELSE [exc |-> NoExc, content |-> content]
              IN IF flat.exc # NoExc
                 THEN [exc |-> flat.exc, or_messages |-> or_messages]
                 ELSE TranslateMessages(Tail(messages),
                          Append(or_messages,
                                 [role |-> role, content |-> flat.content]))

\* the sequence a Python for loop iterates for a JSON value, or the
\* exception: a str iterates to its characters, each a str (the first
\* stands for them here); a number, a boolean or null is not iterable
Iterate(v) ==
    CASE v.k = "list" -> [exc |-> NoExc, items |-> v.items]
      [] v.k = "str"  -> [exc |-> NoExc,
                          items |-> IF v.s = "" THEN <<>> ELSE <<v>>]
      [] v.k \in {"num", "bool", "null"} ->
                         [exc |-> "TypeError", items |-> <<>>]

\* faulty variant: the streaming flag is forwarded as given, false
\* included, an absent max_tokens is given a default and the client's
\* metadata is copied
claude_to_openrouter_body_defaults(claude_request) ==
    IF claude_request.k # "obj"
    THEN [exc |-> "AttributeError", body |-> EmptyRec]
    ELSE LET messages == Iterate(Get(claude_request.messages, List(<<>>)))
             tr == TranslateMessages(messages.items, <<>>)
         IN IF messages.exc # NoExc
            THEN [exc |-> messages.exc, body |-> EmptyRec]
            ELSE IF tr.exc # NoExc
            THEN [exc |-> tr.exc, body |-> EmptyRec]
            ELSE [exc |-> NoExc,
                  body |->
                    [model |-> Get(claude_request.model, Str(OPENROUTER_MODEL)),
                     messages |-> tr.or_messages,
                     stream |-> Truthy(Get(claude_request.stream, Bool(FALSE))),
                     max_tokens |-> Get(claude_request.max_tokens, Num(1024)),
                     metadata |-> claude_request.metadata]
                    @@ (IF claude_request.temperature # Missing
                        THEN [temperature |-> claude_request.temperature]
                        ELSE EmptyRec)]

\* returns [exc, body]: the exception raised, or the body returned
claude_to_openrouter_body(claude_request) ==
    IF claude_request.k # "obj"
    THEN [exc |-> "AttributeError", body |-> EmptyRec]
    ELSE LET messages == Iterate(Get(claude_request.messages, List(<<>>)))
             tr == TranslateMessages(messages.items, <<>>)
         IN IF messages.exc # NoExc
            THEN [exc |-> messages.exc, body |-> EmptyRec]
            ELSE IF tr.exc # NoExc
            THEN [exc |-> tr.exc, body |-> EmptyRec]
            ELSE [exc |-> NoExc,
                  body |->
                    [model |-> Get(claude_request.model, Str(OPENROUTER_MODEL)),
                     messages |-> tr.or_messages]
                    @@ (IF Truthy(Get(claude_request.stream, Bool(FALSE)))
                        THEN [stream |-> TRUE] ELSE EmptyRec)
                    @@ (IF claude_request.max_tokens # Missing
                        THEN [max_tokens |-> claude_request.max_tokens]
                        ELSE EmptyRec)
                    @@ (IF claude_request.temperature # Missing
                        THEN [temperature |-> claude_request.temperature]
                        ELSE EmptyRec)]

----------------------------------------------------------------------------
(* The backend's event stream: lines of tokens, and json.loads *)

SP == " "
DATA == "data:"
DONE == "[DONE]"
CHUNK_He == "{\"choices\":[{\"delta\":{\"content\":\"He\"}}]}"
CHUNK_llo == "{\"choices\":[{\"delta\":{\"content\":\"llo\"}}]}"
CHUNK_empty == "{\"choices\":[{\"delta\":{\"content\":\"\"}}]}"
CHUNK_nochoices == "{\"choices\":[]}"
CHUNK_nodelta == "{\"choices\":[{\"index\":0}]}"
CHUNK_nocontent == "{\"choices\":[{\"delta\":{}}]}"
CHUNK_nullcontent == "{\"choices\":[{\"delta\":{\"content\":null}}]}"
CHUNK_nulldelta == "{\"choices\":[{\"delta\":null}]}"
CHUNK_model == "{\"model\":\"openai/gpt-oss-120b\",\"choices\":[{\"delta\":{\"content\":\"Hi\"}}]}"
GARBAGE == "{oops"

RESP_hello == "{\"choices\":[{\"message\":{\"content\":\"hello\"}}]}"
RESP_two == "{\"choices\":[{\"message\":{\"content\":\"one\"}},{\"message\":{\"content\":\"two\"}}],\"usage\":{\"input_tokens\":3,\"output_tokens\":5}}"
RESP_empty == "{}"
RESP_nomessage == "{\"choices\":[{}]}"
RESP_list == "[]"
RESP_html == "<html>"
RESP_model == "{\"model\":\"openai/gpt-oss-120b\",\"choices\":[{\"message\":{\"content\":\"hello\"}}]}"

\* the objects of the backend dialect
Choice(delta, message) == [k |-> "obj", delta |-> delta, message |-> message]
Delta(content) == [k |-> "obj", content |-> content]
BackendObject(choices, usage) ==
    [k |-> "obj", choices |-> choices, usage |-> usage]
Usage(i, o) == [k |-> "obj", input_tokens |-> i, output_tokens |-> o]

ChunkOf(content) ==
    BackendObject(List(<<Choice(Delta(content), Missing)>>), Missing)

\* json.loads on the texts the backend sends: the decoded value, or the
\* json.JSONDecodeError raised for a text that is not JSON
json_loads(text) ==
    LET ok(v) == [exc |-> NoExc, value |-> v] IN
    CASE text = CHUNK_He -> ok(ChunkOf(Str("He")))
      [] text = CHUNK_llo -> ok(ChunkOf(Str("llo")))
      [] text = CHUNK_empty -> ok(ChunkOf(Str("")))
      [] text = CHUNK_nochoices -> ok(BackendObject(List(<<>>), Missing))
      [] text = CHUNK_nodelta ->
           ok(BackendObject(List(<<Choice(Missing, Missing)>>), Missing))
      [] text = CHUNK_nocontent -> ok(ChunkOf(Missing))
      [] text = CHUNK_nullcontent -> ok(ChunkOf(Null))
      [] text = CHUNK_nulldelta ->
           ok(BackendObject(List(<<Choice(Null, Missing)>>), Missing))
      [] text = RESP_hello ->
           ok(BackendObject(List(<<Choice(Missing, Delta(Str("hello")))>>),
                            Missing))
      [] text = RESP_two ->
           ok(BackendObject(List(<<Choice(Missing, Delta(Str("one"))),
                                   Choice(Missing, Delta(Str("two")))>>),
                            Usage(3, 5)))
      [] text = RESP_empty -> ok(BackendObject(Missing, Missing))
      [] text = RESP_model ->
           ok(BackendObject(List(<<Choice(Missing, Delta(Str("hello")))>>),
                            Missing)
              @@ [model |-> Str(OPENROUTER_MODEL)])
      [] text = CHUNK_model ->
           ok(ChunkOf(Str("Hi")) @@ [model |-> Str(OPENROUTER_MODEL)])
      [] text = RESP_nomessage ->
           ok(BackendObject(List(<<Choice(Missing, Missing)>>), Missing))
      [] text = RESP_list -> ok(List(<<>>))
      [] OTHER -> [exc |-> "JSONDecodeError", value |-> Null]

\* json.dumps of a decoded backend response that has no choice: item and key
\* separators are ", " and ": "
json_dumps(value) ==
    CASE value = BackendObject(List(<<>>), Missing) -> "{\"choices\": []}"
      [] value = BackendObject(Missing, Missing) -> "{}"

\* str.strip() on a sequence of tokens: leading and trailing blanks removed
RECURSIVE LStrip(_)
LStrip(toks) ==
    IF toks # <<>> /\ Head(toks) = SP THEN LStrip(Tail(toks)) ELSE toks

RECURSIVE RStrip(_)
RStrip(toks) ==
    IF toks # <<>> /\ toks[Len(toks)] = SP
    THEN RStrip(SubSeq(toks, 1, Len(toks) - 1)) ELSE toks

Strip(toks) == RStrip(LStrip(toks))

\* the text of a token sequence: json.loads sees one document only if the
\* payload is one token
TextOf(toks) == IF Len(toks) = 1 THEN toks[1] ELSE GARBAGE

\* faulty variant: the sentinel is never recognised
IsSentinelNever(data_str) == FALSE

\* line 229: the payload is the end-of-stream sentinel
IsSentinel(data_str) == data_str = <<DONE>>

\* faulty variant: an undecodable payload is skipped and the loop goes on
OnDecodeErrorSkip(e) == [act |-> "skip", chunk |-> Null, exc |-> NoExc]

\* line 231: json.loads raises inside the loop, which has no handler of
\* its own, so the exception leaves the loop
OnDecodeError(e) == [act |-> "raise", chunk |-> Null, exc |-> e]

\* faulty variant: empty fragments are forwarded too
EmitsAlways(chunk) == TRUE

\* line 239: a chunk is forwarded only if it is truthy
EmitsDelta(chunk) == Truthy(chunk)

\* faulty variant: a line that is blank or has no data: prefix ends the
\* stream
ProcessLineStrict(line) ==
    LET nothing == [act |-> "skip", chunk |-> Null, exc |-> NoExc] IN
    IF line = <<>> THEN [nothing EXCEPT !.act = "break"]
    ELSE IF Head(line) # DATA THEN [nothing EXCEPT !.act = "break"]
    ELSE LET data_str == Strip(Tail(line)) IN
         IF IsSentinel(data_str) THEN [nothing EXCEPT !.act = "break"]
         ELSE LET loaded == json_loads(TextOf(data_str))
                  data_json == loaded.value
              IN IF loaded.exc # NoExc
                 THEN OnDecodeError(loaded.exc)
                 ELSE IF data_json.k # "obj"
                 THEN [nothing EXCEPT !.act = "raise", !.exc = "AttributeError"]
                 ELSE LET choices == Get(data_json.choices, List(<<>>))
                          delta_obj == Get(choices.items[1].delta,
                                           Delta(Missing))
                          chunk == IF Truthy(choices)
                                   THEN Get(delta_obj.content, Str(""))
                                   ELSE Str("")
                      IN IF /\ Truthy(choices)
                            /\ \/ choices.items[1].k # "obj"
                               \/ delta_obj.k # "obj"
                         THEN [nothing EXCEPT !.act = "raise",
                                              !.exc = "AttributeError"]
                         ELSE IF EmitsDelta(chunk)
                         THEN [nothing EXCEPT !.act = "yield", !.chunk = chunk]
                         ELSE nothing

\* the body of the for loop of generate() on one line (lines 224-248):
\* what the loop does next
\*   skip:  continue with the next line, nothing emitted
\*   break: the sentinel, leave the loop
\*   yield: emit a content_block_delta carrying chunk
\*   raise: exception exc leaves the loop
ProcessLine(line) ==
    LET nothing == [act |-> "skip", chunk |-> Null, exc |-> NoExc] IN
    IF line = <<>> THEN nothing
    ELSE IF Head(line) # DATA THEN nothing
    ELSE LET data_str == Strip(Tail(line)) IN
         IF IsSentinel(data_str) THEN [nothing EXCEPT !.act = "break"]
         ELSE LET loaded == json_loads(TextOf(data_str))
                  data_json == loaded.value
              IN IF loaded.exc # NoExc
                 THEN OnDecodeError(loaded.exc)
                 ELSE IF data_json.k # "obj"
                 THEN [nothing EXCEPT !.act = "raise", !.exc = "AttributeError"]
                 ELSE LET choices == Get(data_json.choices, List(<<>>))
                          delta_obj == Get(choices.items[1].delta,
                                           Delta(Missing))
                          chunk == IF Truthy(choices)
                                   THEN Get(delta_obj.content, Str(""))
                                   ELSE Str("")
                      IN IF /\ Truthy(choices)
                            /\ \/ choices.items[1].k # "obj"
                               \/ delta_obj.k # "obj"
                         THEN [nothing EXCEPT !.act = "raise",
                                              !.exc = "AttributeError"]
                         ELSE IF EmitsDelta(chunk)
                         THEN [nothing EXCEPT !.act = "yield", !.chunk = chunk]
                         ELSE nothing

\* the events of the client dialect, one JSON object per line
ContentDelta(chunk) ==
    [type |-> "content_block_delta",
     delta |-> [type |-> "text_delta", text |-> chunk],
     model |-> ANTHROPIC_MODEL_ID]

\* faulty variant: the terminal event names the model of the backend
MessageTerminalBackendModel ==
    [type |-> "message_delta",
     delta |-> [stop_reason |-> "end_turn"],
     model |-> OPENROUTER_MODEL]

MessageTerminal ==
    [type |-> "message_delta",
     delta |-> [stop_reason |-> "end_turn"],
     model |-> ANTHROPIC_MODEL_ID]
ErrorEvent(e) == [error |-> StrOf(e)]

----------------------------------------------------------------------------
(* ResponseTranslator: ClaudeOpenRouterProxy.openrouter_to_claude *)

\* faulty variant: the last choice is taken, and a response without
\* choices gives an empty text
openrouter_to_claude_last(or_response, now) ==
    IF or_response.k # "obj"
    THEN [exc |-> "AttributeError", response |-> EmptyRec]
    ELSE LET choices == Get(or_response.choices, List(<<>>))
             message == Get(choices.items[Len(choices.items)].message,
                            Delta(Missing))
             content == IF Truthy(choices)
                        THEN Get(message.content, Str(""))
                        ELSE Str("")
         IN [exc |-> NoExc,
             response |->
               [id |-> <<"msg_", now>>,
                type |-> "message",
                role |-> "assistant",
                content |-> <<[type |-> "text", text |-> content]>>,
                model |-> ANTHROPIC_MODEL_ID,
                stop_reason |-> "end_turn",
                stop_sequence |-> Null,
                usage |-> Get(or_response.usage, Usage(0, 0))]]

\* returns [exc, response]; now is int(time.time())
openrouter_to_claude(or_response, now) ==
    IF or_response.k # "obj"
    THEN [exc |-> "AttributeError", response |-> EmptyRec]
    ELSE LET choices == Get(or_response.choices, List(<<>>))
             message == Get(choices.items[1].message, Delta(Missing))
             content == IF Truthy(choices)
                        THEN Get(message.content, Str(""))
                        ELSE Str(json_dumps(or_response))
         IN [exc |-> NoExc,
             response |->
               [id |-> <<"msg_", now>>,
                type |-> "message",
                role |-> "assistant",
                content |-> <<[type |-> "text", text |-> content]>>,
                model |-> ANTHROPIC_MODEL_ID,
                stop_reason |-> "end_turn",
                stop_sequence |-> Null,
                usage |-> Get(or_response.usage, Usage(0, 0))]]

----------------------------------------------------------------------------
(* The inputs: client payloads and backend behaviours *)

TextContent == List(<<TextBlock(Str("a")), OtherBlock, TextBlock(Str("b"))>>)

WellFormedPayloads ==
    { ClientRequest(List(<<Message(Str("user"), content)>>), model, stream,
                    Missing, Missing, Missing) :
        content \in {Str("hi"), TextContent},
        model \in {Missing},
        stream \in {Missing, Bool(TRUE), Bool(FALSE)} }
    \cup
    { ClientRequest(List(<<Message(Str("user"), Str("hi")),
                           Message(Missing, Missing)>>),
                    Str("client/model"), Num(1), Num(100), Num(0),
                    Str("meta")) }

\* payloads on which get_json or the translator raises
MalformedPayloads ==
    { NotJson, Null, List(<<>>), Num(7), Str("hi") }
    \cup
    { ClientRequest(messages, Missing, stream, Missing, Missing, Missing) :
        messages \in
          { Num(7), Null, Str("hi"),
            List(<<Str("hi")>>),
            List(<<Message(Str("user"), Str("hi")), Null>>),
            List(<<Message(Str("user"), List(<<Str("hi")>>))>>),
            List(<<Message(Str("user"), List(<<TextBlock(Num(7))>>))>>),
            List(<<Message(Str("user"),
                           List(<<TextBlock(Str("a")), TextBlock(Null)>>))>>) },
        stream \in {Missing, Bool(TRUE)} }

ClientPayloads == WellFormedPayloads \cup MalformedPayloads

L_blank == <<>>
L_comment == <<": keep-alive">>
L_done == <<DATA, SP, DONE>>
L_He == <<DATA, SP, CHUNK_He>>
L_llo == <<DATA, SP, CHUNK_llo>>
L_empty == <<DATA, CHUNK_empty>>
L_nochoices == <<DATA, SP, CHUNK_nochoices, SP>>
L_garbage == <<DATA, SP, GARBAGE>>
L_list == <<DATA, SP, RESP_list>>

LineAlphabet == {L_blank, L_comment, L_done, L_He, L_llo, L_empty,
                 L_nochoices, L_garbage, L_list}

LineSeqs == UNION {[1..n -> LineAlphabet] : n \in 0..MaxLines}

\* a cookie the backend, or a proxy in front of it, sets with a reply
COOKIE == "sid=1"

\* what session.post raises, or "ok" with the HTTP status of the reply;
\* cookies are those the reply sets;
\* a streamed reply is its lines followed by the end of the body or by a
\* transport failure raised by iter_lines
PostFailures == {"ConnectionError", "Timeout"}

StreamBackends ==
    { [post |-> e, http |-> 0, lines |-> <<>>, end |-> "eof",
       cookies |-> {}] :
        e \in PostFailures }
    \cup
    { [post |-> "ok", http |-> 401, lines |-> <<>>, end |-> "eof",
       cookies |-> c] : c \in {{}, {COOKIE}} }
    \cup
    { [post |-> "ok", http |-> 200, lines |-> ls, end |-> e,
       cookies |-> {}] :
        ls \in LineSeqs, e \in {"eof", "ChunkedEncodingError"} }
    \cup
    { [post |-> "ok", http |-> 200, lines |-> <<L_He, L_done>>,
       end |-> "eof", cookies |-> {COOKIE}] }

\* a non-streamed reply is its body; jsonError is the class resp.json()
\* raises on a body that is not JSON, which depends on the requests version
NonStreamBackends ==
    { [post |-> e, http |-> 0, body |-> "", jsonError |-> "JSONDecodeError",
       cookies |-> {}] :
        e \in PostFailures }
    \cup
    { [post |-> "ok", http |-> 401, body |-> RESP_html,
       jsonError |-> "JSONDecodeError", cookies |-> {}] }
    \cup
    { [post |-> "ok", http |-> 200, body |-> b,
       jsonError |-> "JSONDecodeError", cookies |-> {}] :
        b \in {RESP_hello, RESP_two, CHUNK_nochoices, RESP_empty,
               RESP_nomessage, RESP_list} }
    \cup
    { [post |-> "ok", http |-> 200, body |-> RESP_hello,
       jsonError |-> "JSONDecodeError", cookies |-> {COOKIE}] }
    \cup
    { [post |-> "ok", http |-> 200, body |-> RESP_html, jsonError |-> e,
       cookies |-> {}] :
        e \in {"JSONDecodeError", "RequestsJSONDecodeError"} }

----------------------------------------------------------------------------
(* The state machine *)

Init ==
    /\ pc = [r \in Reqs |-> IF r = 1 THEN "received" ELSE "idle"]
    /\ payload \in {[r \in Reqs |-> IF r = 1 THEN p ELSE Missing] :
                      p \in ClientPayloads}
    /\ or_body = [r \in Reqs |-> EmptyRec]
    /\ backend = [r \in Reqs |-> EmptyRec]
    /\ calls = [r \in Reqs |-> 0]
    /\ conn = [r \in Reqs |-> "none"]
    /\ gen = [r \in Reqs |-> "none"]
    /\ cursor = [r \in Reqs |-> 0]
    /\ events = [r \in Reqs |-> <<>>]
    /\ status = [r \in Reqs |-> 0]
    /\ respBody = [r \in Reqs |-> EmptyRec]
    /\ crashed = [r \in Reqs |-> FALSE]
    /\ sent = [r \in Reqs |-> {}]
    /\ session = {}

\* faulty variant: get_json(silent=True) or {}
get_json_silent(raw) ==
    IF raw = NotJson
    THEN [exc |-> NoExc,
          value |-> ClientRequest(Missing, Missing, Missing, Missing, Missing,
                                  Missing)]
    ELSE [exc |-> NoExc, value |-> raw]

\* request.get_json(): the parsed payload, or BadRequest
get_json(raw) ==
    IF raw = NotJson THEN [exc |-> "BadRequest", value |-> Null]
    ELSE [exc |-> NoExc, value |-> raw]

\* what an except clause catches
CatchesException(e) == e \in Exceptions
CatchesRequestException(e) == e \in RequestExceptions
CatchesValueError(e) == e \in ValueErrors

\* the except clause of handle_messages (lines 174-175)
ProxyFailed(e) == [error |-> "proxy failed: " \o StrOf(e)]

\* the except clauses of handle_non_streaming_request (lines 190-204)
RequestFailed(e) ==
    [error |-> "OpenRouter request failed", detail |-> StrOf(e),
     note |-> "Check OPENROUTER_API_KEY and that the model openai/gpt-oss-120b is available for your account."]
NotJsonReply(e) ==
    [error |-> "OpenRouter did not return JSON", detail |-> StrOf(e)]

\* faulty variant: every request is sent down the non-streaming path
StreamFlagNever(body) == FALSE

\* line 169: bool(or_body.get("stream"))
StreamFlag(body) == "stream" \in DOMAIN body /\ body.stream

\* handle_messages up to its backend call: parse, translate, dispatch on
\* the stream flag of the translated body
HandleMessages(r) ==
    /\ pc[r] = "received"
    /\ LET parsed == get_json(payload[r])
           tr == claude_to_openrouter_body(parsed.value)
           exc == IF parsed.exc # NoExc THEN parsed.exc ELSE tr.exc
           stream == StreamFlag(tr.body)
       IN IF exc # NoExc
          THEN /\ pc' = [pc EXCEPT ![r] = "done"]
               /\ status' = [status EXCEPT ![r] =
                               IF CatchesException(exc) THEN 500 ELSE 0]
               /\ respBody' = [respBody EXCEPT ![r] =
                               IF CatchesException(exc) THEN ProxyFailed(exc)
                               ELSE EmptyRec]
               /\ crashed' = [crashed EXCEPT ![r] = ~CatchesException(exc)]
               /\ UNCHANGED <<or_body, gen>>
          ELSE /\ or_body' = [or_body EXCEPT ![r] = tr.body]
               /\ pc' = [pc EXCEPT ![r] =
                           IF stream THEN "streaming" ELSE "nonstreaming"]
               /\ gen' = [gen EXCEPT ![r] =
                           IF stream THEN "created" ELSE "none"]
               /\ status' = [status EXCEPT ![r] = IF stream THEN 200 ELSE 0]
               /\ UNCHANGED <<respBody, crashed>>
    /\ UNCHANGED <<payload, backend, calls, conn, cursor, events, sent,
                   session>>

\* faulty variant: each call starts from an empty cookie jar
PrepareCookiesNone(jar) == {}

\* session.post prepares the request with the cookies of the session's jar
PrepareCookies(jar) == jar

\* session.post stores the cookies a reply sets in the session's jar; a
\* call that raised before a reply arrived stores nothing
ExtractCookies(jar, b) == IF b.post = "ok" THEN jar \cup b.cookies ELSE jar

\* faulty variant: a failed call is tried once more
AttemptsRetry(b) == IF b.post # "ok" THEN 2 ELSE 1

\* session.post is called once per request path: no loop, no retry
Attempts(b) == 1

\* faulty variant: the reply is left open whether or not it is read whole
PostConnStreamed(b, stream) ==
    CASE b.post = "ConnectionError" -> "none"
      [] b.post = "Timeout"         -> "released"
      [] OTHER -> "open"

\* the connection right after session.post(..., stream=stream) returned or
\* raised: none was established on a connection error, the library closes
\* it on a timeout, a reply read whole (stream=False) gives it back to the
\* pool, and a streamed reply keeps it until the response is closed
PostConn(b, stream) ==
    CASE b.post = "ConnectionError" -> "none"
      [] b.post = "Timeout"         -> "released"
      [] OTHER -> IF stream THEN "open" ELSE "released"

\* handle_non_streaming_request from the post to its return, and the except
\* clause of handle_messages around it: [status, body, crashed]
NonStreamingResult(b, now) ==
    LET loaded == json_loads(b.body)
        tr == openrouter_to_claude(loaded.value, now)
        exc == IF b.post # "ok" THEN b.post
               ELSE IF b.http >= 400 THEN "HTTPError"
               ELSE IF loaded.exc # NoExc THEN b.jsonError
               ELSE tr.exc
    IN IF exc = NoExc
       THEN [status |-> 200, body |-> tr.response, crashed |-> FALSE]
       ELSE IF CatchesRequestException(exc)
       THEN [status |-> 500, body |-> RequestFailed(exc), crashed |-> FALSE]
       ELSE IF CatchesValueError(exc)
       THEN [status |-> 500, body |-> NotJsonReply(exc), crashed |-> FALSE]
       ELSE IF CatchesException(exc)
       THEN [status |-> 500, body |-> ProxyFailed(exc), crashed |-> FALSE]
       ELSE [status |-> 0, body |-> EmptyRec, crashed |-> TRUE]

\* the backend call of the non-streaming path and the response it gives,
\* the backend answering with one of replies
NonStreamingPostFrom(r, replies) ==
    /\ pc[r] = "nonstreaming"
    /\ \E b \in replies, now \in 0..MaxTime :
         LET res == NonStreamingResult(b, now) IN
         /\ backend' = [backend EXCEPT ![r] = b]
         /\ calls' = [calls EXCEPT ![r] = @ + Attempts(b)]
         /\ conn' = [conn EXCEPT ![r] = PostConn(b, FALSE)]
         /\ status' = [status EXCEPT ![r] = res.status]
         /\ respBody' = [respBody EXCEPT ![r] = res.body]
         /\ crashed' = [crashed EXCEPT ![r] = res.crashed]
         /\ sent' = [sent EXCEPT ![r] = PrepareCookies(session)]
         /\ session' = ExtractCookies(session, b)
    /\ pc' = [pc EXCEPT ![r] = "done"]
    /\ UNCHANGED <<payload, or_body, gen, cursor, events>>

NonStreamingPost(r) == NonStreamingPostFrom(r, NonStreamBackends)

\* faulty variant: the response is not closed
WithExitLeak(c) == c

\* leaving the with block of generate(): the response is closed
WithExit(c) == IF c = "open" THEN "released" ELSE c

\* faulty variant: only decoding failures are caught
CatchesGenerateValueError(e) == e \in ValueErrors

\* what the try of generate() catches: except Exception
CatchesGenerate(e) == CatchesException(e)

\* faulty variant: the terminal event is emitted on the failure path too
GenRaiseThenTerminal(r, c, e) ==
    /\ conn' = [conn EXCEPT ![r] = WithExit(c)]
    /\ events' = [events EXCEPT ![r] =
                    Append(Append(@, ErrorEvent(e)), MessageTerminal)]
    /\ gen' = [gen EXCEPT ![r] = "at_terminal"]
    /\ UNCHANGED <<pc, crashed>>

\* exception e leaves the try body of generate() while the connection is
\* c: the with block, if entered, is left and the except clause yields one
\* error event
GenRaise(r, c, e) ==
    /\ conn' = [conn EXCEPT ![r] = WithExit(c)]
    /\ IF CatchesGenerate(e)
       THEN /\ events' = [events EXCEPT ![r] = Append(@, ErrorEvent(e))]
            /\ gen' = [gen EXCEPT ![r] = "at_error"]
            /\ UNCHANGED <<pc, crashed>>
       ELSE /\ gen' = [gen EXCEPT ![r] = "finished"]
            /\ pc' = [pc EXCEPT ![r] = "done"]
            /\ crashed' = [crashed EXCEPT ![r] = TRUE]
            /\ UNCHANGED events

\* the end of the for loop: the message_delta event is yielded inside the
\* with block
GenTerminal(r) ==
    /\ events' = [events EXCEPT ![r] = Append(@, MessageTerminal)]
    /\ gen' = [gen EXCEPT ![r] = "at_terminal"]
    /\ UNCHANGED <<conn, pc, crashed>>

\* the first next() on generate(): session.post and raise_for_status, the
\* backend answering with one of replies
GenStartFrom(r, replies) ==
    /\ pc[r] = "streaming"
    /\ gen[r] = "created"
    /\ \E b \in replies :
         /\ backend' = [backend EXCEPT ![r] = b]
         /\ calls' = [calls EXCEPT ![r] = @ + Attempts(b)]
         /\ sent' = [sent EXCEPT ![r] = PrepareCookies(session)]
         /\ session' = ExtractCookies(session, b)
         /\ IF b.post # "ok" \/ b.http >= 400
            THEN GenRaise(r, PostConn(b, TRUE),
                          IF b.post # "ok" THEN b.post ELSE "HTTPError")
            ELSE /\ conn' = [conn EXCEPT ![r] = PostConn(b, TRUE)]
                 /\ gen' = [gen EXCEPT ![r] = "iter"]
                 /\ UNCHANGED <<events, pc, crashed>>
    /\ UNCHANGED <<payload, or_body, cursor, status, respBody>>

GenStart(r) == GenStartFrom(r, StreamBackends)

\* the content_block_delta events of the lines that yield one
RECURSIVE BufferedDeltas(_)
BufferedDeltas(lines) ==
    IF lines = <<>> THEN <<>>
    ELSE (IF ProcessLine(Head(lines)).act = "yield"
          THEN <<ContentDelta(ProcessLine(Head(lines)).chunk)>> ELSE <<>>)
         \o BufferedDeltas(Tail(lines))

\* faulty variant: the deltas are kept back while the lines are read and
\* handed over together when the stream ends
GenLineBuffered(r) ==
    /\ pc[r] = "streaming"
    /\ gen[r] \in {"iter", "at_delta"}
    /\ LET b == backend[r]
           held == BufferedDeltas(SubSeq(b.lines, 1, cursor[r]))
       IN
       IF cursor[r] = Len(b.lines)
       THEN /\ UNCHANGED cursor
            /\ events' = [events EXCEPT ![r] =
                            held \o <<IF b.end = "eof" THEN MessageTerminal
                                      ELSE ErrorEvent(b.end)>>]
            /\ gen' = [gen EXCEPT ![r] =
                         IF b.end = "eof" THEN "at_terminal" ELSE "at_error"]
            /\ conn' = [conn EXCEPT ![r] =
                          IF b.end = "eof" THEN @ ELSE WithExit(@)]
            /\ UNCHANGED <<pc, crashed>>
       ELSE LET out == ProcessLine(b.lines[cursor[r] + 1]) IN
            /\ cursor' = [cursor EXCEPT ![r] = @ + 1]
            /\ CASE out.act \in {"skip", "yield"} ->
                      /\ gen' = [gen EXCEPT ![r] = "iter"]
                      /\ UNCHANGED <<events, conn, pc, crashed>>
                 [] out.act = "break" ->
                      /\ events' = [events EXCEPT ![r] =
                                      held \o <<MessageTerminal>>]
                      /\ gen' = [gen EXCEPT ![r] = "at_terminal"]
                      /\ UNCHANGED <<conn, pc, crashed>>
                 [] out.act = "raise" ->
                      /\ events' = [events EXCEPT ![r] =
                                      held \o <<ErrorEvent(out.exc)>>]
                      /\ gen' = [gen EXCEPT ![r] = "at_error"]
                      /\ conn' = [conn EXCEPT ![r] = WithExit(@)]
                      /\ UNCHANGED <<pc, crashed>>
    /\ UNCHANGED <<payload, or_body, backend, calls, status, respBody, sent,
                   session>>

\* one turn of the for loop of generate(): pull the next line from
\* iter_lines and run the loop body on it, up to the next pull or yield
GenLine(r) ==
    /\ pc[r] = "streaming"
    /\ gen[r] \in {"iter", "at_delta"}
    /\ LET b == backend[r] IN
       IF cursor[r] = Len(b.lines)
       THEN /\ UNCHANGED cursor
            /\ IF b.end = "eof" THEN GenTerminal(r) ELSE GenRaise(r, conn[r], b.end)
       ELSE LET out == ProcessLine(b.lines[cursor[r] + 1]) IN
            /\ cursor' = [cursor EXCEPT ![r] = @ + 1]
            /\ CASE out.act = "skip" ->
                      /\ gen' = [gen EXCEPT ![r] = "iter"]
                      /\ UNCHANGED <<events, conn, pc, crashed>>
                 [] out.act = "break" -> GenTerminal(r)
                 [] out.act = "yield" ->
                      /\ events' = [events EXCEPT ![r] =
                                      Append(@, ContentDelta(out.chunk))]
                      /\ gen' = [gen EXCEPT ![r] = "at_delta"]
                      /\ UNCHANGED <<conn, pc, crashed>>
                 [] out.act = "raise" -> GenRaise(r, conn[r], out.exc)
    /\ UNCHANGED <<payload, or_body, backend, calls, status, respBody, sent,
                   session>>

\* next() after the last event: the with block is left after the terminal
\* event, the generator returns and the response is complete
GenResume(r) ==
    /\ pc[r] = "streaming"
    /\ gen[r] \in {"at_terminal", "at_error"}
    /\ conn' = [conn EXCEPT ![r] =
                  IF gen[r] = "at_terminal" THEN WithExit(@) ELSE @]
    /\ gen' = [gen EXCEPT ![r] = "finished"]
    /\ pc' = [pc EXCEPT ![r] = "done"]
    /\ UNCHANGED <<payload, or_body, backend, calls, cursor, events, status,
                   respBody, crashed, sent, session>>

\* the client disconnects while the generator is suspended: the server
\* calls close() on it, which raises GeneratorExit at the pending yield
ClientAbort(r) ==
    /\ pc[r] = "streaming"
    /\ gen[r] \in {"created", "at_delta", "at_terminal", "at_error"}
    /\ conn' = [conn EXCEPT ![r] =
                  IF gen[r] \in {"at_delta", "at_terminal"}
                  THEN WithExit(@) ELSE @]
    /\ IF gen[r] \in {"at_delta", "at_terminal"}
          /\ CatchesGenerate("GeneratorExit")
       THEN \* the except clause yields again: RuntimeError from close()
            /\ events' = [events EXCEPT ![r] =
                            Append(@, ErrorEvent("GeneratorExit"))]
            /\ crashed' = [crashed EXCEPT ![r] = TRUE]
       ELSE UNCHANGED <<events, crashed>>
    /\ gen' = [gen EXCEPT ![r] = "closed"]
    /\ pc' = [pc EXCEPT ![r] = "done"]
    /\ UNCHANGED <<payload, or_body, backend, calls, cursor, status, respBody,
                   sent, session>>

Next ==
    \E r \in Reqs :
        \/ HandleMessages(r)
        \/ NonStreamingPost(r)
        \/ GenStart(r)
        \/ GenLine(r)
        \/ GenResume(r)
        \/ ClientAbort(r)

Spec == Init /\ [][Next]_vars

----------------------------------------------------------------------------
(* What a backend stream says, read off the wire format *)

IsDataLine(line) == line # <<>> /\ Head(line) = DATA
PayloadOf(line) == Strip(Tail(line))
IsSentinelLine(line) == IsDataLine(line) /\ PayloadOf(line) = <<DONE>>
DecodedOf(line) == json_loads(TextOf(PayloadOf(line)))

\* a data line before the sentinel whose payload is not a chunk object
IsUndecodableLine(line) ==
    /\ IsDataLine(line)
    /\ ~IsSentinelLine(line)
    /\ \/ DecodedOf(line).exc # NoExc
       \/ DecodedOf(line).value.k # "obj"

\* the failure an undecodable line stands for
FailureOf(line) ==
    IF DecodedOf(line).exc # NoExc THEN "JSONDecodeError" ELSE "AttributeError"

\* the content fragment of the first choice of a line, "" when it has none
FragmentOf(line) ==
    IF IsDataLine(line) /\ ~IsSentinelLine(line) /\ ~IsUndecodableLine(line)
    THEN LET v == DecodedOf(line).value IN
         IF /\ v.choices # Missing
            /\ v.choices.items # <<>>
            /\ v.choices.items[1].delta # Missing
            /\ v.choices.items[1].delta.content # Missing
         THEN v.choices.items[1].delta.content
         ELSE Str("")
    ELSE Str("")

\* the same, tabulated over the lines of the alphabet
Fragment == [line \in LineAlphabet |-> FragmentOf(line)]
Stops == [line \in LineAlphabet |->
            IsSentinelLine(line) \/ IsUndecodableLine(line)]

RECURSIVE NonEmptyFragments(_)
NonEmptyFragments(lines) ==
    IF lines = <<>> THEN <<>>
    ELSE (IF Fragment[Head(lines)] # Str("")
          THEN <<Fragment[Head(lines)]>> ELSE <<>>)
         \o NonEmptyFragments(Tail(lines))

\* the first line that ends the stream: the sentinel or an undecodable
\* line; Len(lines) + 1 when there is none
StopIndex(lines) ==
    LET S == {i \in 1..Len(lines) : Stops[lines[i]]}
    IN IF S = {} THEN Len(lines) + 1
       ELSE CHOOSE i \in S : \A j \in S : i <= j

BeforeStop(lines) == SubSeq(lines, 1, StopIndex(lines) - 1)

IsDelta(ev) == "type" \in DOMAIN ev /\ ev.type = "content_block_delta"
IsTerminal(ev) ==
    /\ "type" \in DOMAIN ev
    /\ ev.type = "message_delta"
    /\ ev.delta = [stop_reason |-> "end_turn"]
IsError(ev) == "error" \in DOMAIN ev
IsClosing(ev) == IsTerminal(ev) \/ IsError(ev)

DeltaTexts(evs) ==
    LET ds == SelectSeq(evs, IsDelta) IN
    [i \in 1..Len(ds) |-> ds[i].delta.text]

Closings(evs) == {i \in 1..Len(evs) : IsClosing(evs[i])}

\* request r is on the streaming path and its backend call was answered
\* with a success status
StreamCalled(r) == gen[r] # "none" /\ backend[r] # EmptyRec

Streamed(r) ==
    /\ StreamCalled(r)
    /\ backend[r].post = "ok"
    /\ backend[r].http = 200

\* the generator of r has produced its last event and was not closed early
Closed(r) == gen[r] \in {"at_terminal", "at_error", "finished"}

Min(a, b) == IF a <= b THEN a ELSE b

----------------------------------------------------------------------------
(* Claims *)

\* C1: for every backend line stream handled by the transcoder (blank,
\* non-data, data, undecodable and sentinel lines, a transport failure at
\* any point, a failed backend call), the emitted events end with exactly
\* one closing event, a message_delta with stop_reason end_turn or an error
\* event: a closing event is only ever the last event, and a stream handled
\* to its end has one.
C1_ExactlyOneClosingEvent ==
    \A r \in Reqs :
        /\ Closings(events[r]) \subseteq {Len(events[r])}
        /\ Closed(r) => Closings(events[r]) = {Len(events[r])}
        /\ gen[r] \in {"created", "iter", "at_delta"} =>
               Closings(events[r]) = {}

\* a stream with two deltas whose transport fails after them has ended with
\* the error event
C1_Witness ==
    /\ gen[1] = "finished"
    /\ backend[1].post = "ok"
    /\ backend[1].end = "ChunkedEncodingError"
    /\ Len(events[1]) = 3
    /\ IsDelta(events[1][1]) /\ IsDelta(events[1][2]) /\ IsError(events[1][3])

\* C2: once an undecodable data line before the sentinel has been read, or
\* the transport has failed (in the backend call or while reading), no
\* further line is consumed, the events are the deltas of the earlier lines
\* followed by exactly one error event carrying the failure's description,
\* and there is no terminal event.
C2_DecodeFailureAborts ==
    \A r \in Reqs :
        /\ Streamed(r) =>
             LET ls == backend[r].lines
                 i == StopIndex(ls)
             IN /\ (i <= Len(ls) /\ IsUndecodableLine(ls[i]) /\ cursor[r] >= i)
                     => /\ cursor[r] = i
                        /\ DeltaTexts(events[r])
                             = NonEmptyFragments(SubSeq(ls, 1, i - 1))
                        /\ Len(events[r]) = Len(DeltaTexts(events[r])) + 1
                        /\ events[r][Len(events[r])]
                             = [error |-> StrOf(FailureOf(ls[i]))]
                /\ (i = Len(ls) + 1 /\ backend[r].end # "eof" /\ Closed(r))
                     => /\ cursor[r] = Len(ls)
                        /\ DeltaTexts(events[r]) = NonEmptyFragments(ls)
                        /\ Len(events[r]) = Len(DeltaTexts(events[r])) + 1
                        /\ events[r][Len(events[r])]
                             = [error |-> StrOf(backend[r].end)]
        /\ (StreamCalled(r) /\ ~Streamed(r)) =>
               /\ cursor[r] = 0
               /\ events[r] =
                    <<[error |-> StrOf(IF backend[r].post # "ok"
                                       THEN backend[r].post ELSE "HTTPError")]>>

\* a delta, then an undecodable line, then a line that is never read
C2_Witness ==
    /\ gen[1] = "finished"
    /\ backend[1].lines = <<L_He, L_garbage, L_llo>>
    /\ cursor[1] = 2
    /\ events[1] = <<ContentDelta(Str("He")),
                     [error |-> StrOf("JSONDecodeError")]>>

\* C3: the texts carried by the content-delta events are, in order, the
\* non-empty first-choice fragments of the lines consumed before the
\* sentinel, the end of input or the first failure; when the stream has
\* closed they are those of all the lines before that point.
C3_DeltasInOrder ==
    \A r \in Reqs :
        Streamed(r) =>
            LET ls == backend[r].lines IN
            /\ DeltaTexts(events[r]) =
                 NonEmptyFragments(
                     SubSeq(ls, 1, Min(cursor[r], StopIndex(ls) - 1)))
            /\ Closed(r) =>
                 DeltaTexts(events[r]) = NonEmptyFragments(BeforeStop(ls))

\* the stream He, llo, [DONE] has given the deltas He and llo, then the
\* terminal event
C3_Witness ==
    /\ gen[1] = "finished"
    /\ backend[1].lines = <<L_He, L_llo, L_done>>
    /\ events[1] = <<ContentDelta(Str("He")), ContentDelta(Str("llo")),
                     MessageTerminal>>

\* C4: once the sentinel line has been read no later line is consumed,
\* nothing is produced from the lines after it, and the stream closes with
\* the terminal event and without an error event.
C4_SentinelStops ==
    \A r \in Reqs :
        Streamed(r) =>
            LET ls == backend[r].lines
                i == StopIndex(ls)
            IN /\ cursor[r] <= i
               /\ (i <= Len(ls) /\ IsSentinelLine(ls[i]) /\ cursor[r] >= i)
                    => /\ cursor[r] = i
                       /\ DeltaTexts(events[r])
                            = NonEmptyFragments(SubSeq(ls, 1, i - 1))
                       /\ Len(events[r]) = Len(DeltaTexts(events[r])) + 1
                       /\ IsTerminal(events[r][Len(events[r])])

\* a delta, the sentinel, then an undecodable line that is never read
C4_Witness ==
    /\ gen[1] = "finished"
    /\ backend[1].lines = <<L_He, L_done, L_garbage>>
    /\ cursor[1] = 2
    /\ events[1] = <<ContentDelta(Str("He")), MessageTerminal>>

\* a failure of the backend call of the non-streaming path: connection
\* error, timeout, non-success status, body that is not JSON
NonStreamFailed(b) ==
    \/ b.post # "ok"
    \/ b.http >= 400
    \/ json_loads(b.body).exc # NoExc

\* a failure of the backend call of the streaming path, met by a stream
\* that is handled to its end
StreamFailed(b) ==
    \/ b.post # "ok"
    \/ b.http >= 400
    \/ /\ StopIndex(b.lines) = Len(b.lines) + 1
       /\ b.end # "eof"
    \/ /\ StopIndex(b.lines) <= Len(b.lines)
       /\ IsUndecodableLine(b.lines[StopIndex(b.lines)])

NonStreamCalled(r) == gen[r] = "none" /\ backend[r] # EmptyRec

HasErrorBody(body) == "error" \in DOMAIN body

LastEvent(r) == events[r][Len(events[r])]

C6_ConnectionReleased ==
    \A r \in Reqs :
        /\ pc[r] = "done" => conn[r] # "open"
        /\ gen[r] \in {"at_error", "finished", "closed"} => conn[r] # "open"

\* a stream the client left after its first delta, connection released
C6_Witness ==
    /\ pc[1] = "done"
    /\ gen[1] = "closed"
    /\ cursor[1] >= 1
    /\ cursor[1] < Len(backend[1].lines)
    /\ conn[1] = "released"

\* C7: when the client disconnects while the generator is suspended, the
\* step that closes the generator and every later step pull no line from
\* the backend and leave the backend connection released.
C7_AbortStopsPulling ==
    [][\A r \in Reqs :
          /\ gen[r] = "closed" => gen'[r] = "closed"
          /\ gen'[r] = "closed" =>
                 /\ cursor'[r] = cursor[r]
                 /\ conn'[r] # "open"
                 /\ events'[r] = events[r]]_vars

\* the client left between the first delta and the next line
C7_Witness ==
    /\ gen[1] = "closed"
    /\ Len(events[1]) = 1
    /\ IsDelta(events[1][1])
    /\ cursor[1] < Len(backend[1].lines)
    /\ conn[1] = "released"
    /\ ~crashed[1]

\* C8 as stated: the request translator returns a body for every payload
\* that parses as JSON, and never raises.
C8_TranslatorTotal ==
    \A r \in Reqs :
        (pc[r] \notin {"idle", "received"} /\ get_json(payload[r]).exc = NoExc)
            => /\ claude_to_openrouter_body(payload[r]).exc = NoExc
               /\ or_body[r] = claude_to_openrouter_body(payload[r]).body
               /\ or_body[r] # EmptyRec

\* C9: a request whose payload is malformed (not JSON, or JSON on which the
\* translation fails) never causes a backend call, and is answered with
\* status 500 and the body {error: "proxy failed: <description>"}.
C9_MalformedNoBackendCall ==
    \A r \in Reqs :
        payload[r] \in MalformedPayloads =>
            /\ calls[r] = 0
            /\ backend[r] = EmptyRec
            /\ conn[r] = "none"
            /\ pc[r] \in {"received", "done"}
            /\ pc[r] = "done" =>
                   /\ status[r] = 500
                   /\ DOMAIN respBody[r] = {"error"}
                   /\ respBody[r].error \in
                        {"proxy failed: " \o StrOf(e) : e \in Exceptions}

\* a streaming request with a text block whose text is a number
C9_Witness ==
    /\ pc[1] = "done"
    /\ payload[1] =
         ClientRequest(
             List(<<Message(Str("user"), List(<<TextBlock(Num(7))>>))>>),
             Missing, Bool(TRUE), Missing, Missing, Missing)
    /\ status[1] = 500
    /\ respBody[1] = [error |-> "proxy failed: unsupported operand type"]
    /\ calls[1] = 0

\* C10: a request issues at most one backend call on every path, also when
\* the call fails.
C10_AtMostOneBackendCall ==
    \A r \in Reqs : calls[r] <= 1

\* a non-streaming request whose only backend call was refused
C10_Witness ==
    /\ pc[1] = "done"
    /\ gen[1] = "none"
    /\ backend[1] # EmptyRec
    /\ backend[1].post = "ConnectionError"
    /\ status[1] = 500
    /\ calls[1] = 1

\* the non-streaming backend call of r was answered with a success status
\* and a body that is not JSON
UndecodableBody(r) ==
    /\ NonStreamCalled(r)
    /\ backend[r].post = "ok"
    /\ backend[r].http < 400
    /\ json_loads(backend[r].body).exc # NoExc

\* C11 as stated: on the non-streaming path a reply with a success status
\* whose body is not JSON gives a server-error response with the 'did not
\* return JSON' error body, never the 'request failed' error body used for
\* connection errors, timeouts and non-success statuses.
C11_UndecodableBodyDistinguished ==
    \A r \in Reqs :
        UndecodableBody(r) =>
            /\ status[r] = 500
            /\ respBody[r].error = "OpenRouter did not return JSON"
            /\ respBody[r].error # RequestFailed("Timeout").error

----------------------------------------------------------------------------
(* The request translator on its own: a wider universe of client payloads, *)
(* each request translated once by handle_messages                         *)

\* a block without a type tag that carries a text
UntypedBlock == [k |-> "obj", type |-> Missing, text |-> Str("x")]

Blocks == {TextBlock(Str("a")), TextBlock(Str("b")), TextBlock(Missing),
           OtherBlock, UntypedBlock}

BlockSeqs == UNION {[1..n -> Blocks] : n \in 0..MaxBlocks}

Contents == {Missing, Str("hi"), Str(""), Num(7)}
            \cup {List(bs) : bs \in BlockSeqs}

Roles == {Missing, Str("user"), Str("tool"), Null}

SmallMessages == {Message(Str("user"), Str("hi")),
                  Message(Str("assistant"), TextContent),
                  Message(Missing, Missing)}

MessageLists ==
    {<<>>}
    \cup {<<Message(role, content)>> : role \in Roles, content \in Contents}
    \cup UNION {[1..n -> SmallMessages] : n \in 2..MaxMsgs}

StreamFlags == {Missing, Bool(TRUE), Bool(FALSE), Num(1), Num(0), Null}

TranslatorInputs ==
    { ClientRequest(List(ms), Missing, Missing, Missing, Missing, Missing) :
        ms \in MessageLists }
    \cup
    { ClientRequest(messages, model, stream, max_tokens, temperature,
                    metadata) :
        messages \in {Missing, List(<<Message(Str("user"), Str("hi"))>>)},
        model \in {Missing, Str("client/model")},
        stream \in StreamFlags,
        max_tokens \in {Missing, Num(100), Null},
        temperature \in {Missing, Num(0)},
        metadata \in {Missing, Str("meta")} }
    \cup MalformedPayloads

\* the payloads of the requests after the first: the first one's again, or
\* one of a few others
OtherInputs(p) ==
    {p,
     ClientRequest(List(<<Message(Str("user"), Str("hi"))>>), Missing,
                   Bool(TRUE), Missing, Missing, Missing),
     ClientRequest(List(<<Message(Str("tool"), TextContent)>>),
                   Str("client/model"), Missing, Num(100), Missing,
                   Str("meta"))}

InitT ==
    /\ pc = [r \in Reqs |-> "received"]
    /\ \E p \in TranslatorInputs :
         /\ payload \in [Reqs -> OtherInputs(p)]
         /\ payload[1] = p
    /\ or_body = [r \in Reqs |-> EmptyRec]
    /\ backend = [r \in Reqs |-> EmptyRec]
    /\ calls = [r \in Reqs |-> 0]
    /\ conn = [r \in Reqs |-> "none"]
    /\ gen = [r \in Reqs |-> "none"]
    /\ cursor = [r \in Reqs |-> 0]
    /\ events = [r \in Reqs |-> <<>>]
    /\ status = [r \in Reqs |-> 0]
    /\ respBody = [r \in Reqs |-> EmptyRec]
    /\ crashed = [r \in Reqs |-> FALSE]
    /\ sent = [r \in Reqs |-> {}]
    /\ session = {}

NextT == \E r \in Reqs : HandleMessages(r)

SpecT == InitT /\ [][NextT]_vars

\* the translator returned a body for request r
Translated(r) == or_body[r] # EmptyRec

\* the client's message list, empty when the request has none
ClientMessages(r) ==
    LET messages == Get(payload[r].messages, List(<<>>)) IN
    IF messages.k = "list" THEN messages.items ELSE <<>>

IsTextBlock(block) == block.type = Str("text")

RECURSIVE Concat(_)
Concat(strs) == IF strs = <<>> THEN "" ELSE Head(strs) \o Concat(Tail(strs))

\* the texts of the text blocks of a block sequence, in order
TextsOf(blocks) ==
    LET tb == SelectSeq(blocks, IsTextBlock) IN
    [i \in 1..Len(tb) |-> IF tb[i].text = Missing THEN "" ELSE tb[i].text.s]

\* C12: the request translator maps the client message list to a backend
\* message list of the same length and order; the i-th message keeps the
\* role of the i-th client message verbatim, keeps its content unchanged
\* when it is a plain string, and when it is a block sequence has as
\* content the concatenation, in order and with no separator, of the text
\* of exactly the blocks whose type is "text"; a sequence with no text
\* block gives the empty string.
C12_MessagesTranslated ==
    \A r \in Reqs :
        Translated(r) =>
            LET ms == ClientMessages(r)
                om == or_body[r].messages
            IN /\ Len(om) = Len(ms)
               /\ \A i \in 1..Len(ms) :
                    /\ DOMAIN om[i] = {"role", "content"}
                    /\ ms[i].role # Missing => om[i].role = ms[i].role
                    /\ ms[i].content.k = "str" => om[i].content = ms[i].content
                    /\ ms[i].content.k = "list" =>
                         /\ om[i].content =
                              Str(Concat(TextsOf(ms[i].content.items)))
                         /\ (\A j \in 1..Len(ms[i].content.items) :
                               ~IsTextBlock(ms[i].content.items[j]))
                              => om[i].content = Str("")

\* two messages, the second a block sequence text a, image, text b
C12_Witness ==
    /\ Translated(1)
    /\ payload[1].messages =
         List(<<Message(Str("user"), Str("hi")),
                Message(Str("assistant"), TextContent)>>)
    /\ or_body[1].messages =
         <<[role |-> Str("user"), content |-> Str("hi")],
           [role |-> Str("assistant"), content |-> Str("ab")]>>

\* C13: the body the request translator produces has exactly the keys model
\* and messages, plus stream, with value true, if and only if the client's
\* streaming flag is true, plus max_tokens if and only if the client
\* request contains max_tokens, plus temperature if and only if it contains
\* temperature; stream is never sent as false, an absent max_tokens,
\* temperature or stream is not given a default, and no other client field
\* is in the body.
C13_BodyKeys ==
    \A r \in Reqs :
        Translated(r) =>
            LET req == payload[r]
                body == or_body[r]
            IN /\ {"model", "messages"} \subseteq DOMAIN body
               /\ DOMAIN body \subseteq {"model", "messages", "stream",
                                         "max_tokens", "temperature"}
               /\ "stream" \in DOMAIN body => body.stream = TRUE
               /\ req.stream \in {Missing, Bool(TRUE), Bool(FALSE)} =>
                    ("stream" \in DOMAIN body <=> req.stream = Bool(TRUE))
               /\ "max_tokens" \in DOMAIN body <=> req.max_tokens # Missing
               /\ "max_tokens" \in DOMAIN body =>
                    body.max_tokens = req.max_tokens
               /\ "temperature" \in DOMAIN body <=> req.temperature # Missing
               /\ "temperature" \in DOMAIN body =>
                    body.temperature = req.temperature

\* a request with stream false, max_tokens and metadata, no temperature:
\* the body has model, messages and max_tokens only
C13_Witness ==
    /\ Translated(1)
    /\ payload[1] =
         ClientRequest(List(<<Message(Str("user"), Str("hi"))>>), Missing,
                       Bool(FALSE), Num(100), Missing, Str("meta"))
    /\ DOMAIN or_body[1] = {"model", "messages", "max_tokens"}
    /\ or_body[1].max_tokens = Num(100)

\* the non-streaming backend call of r was answered with a success status
\* and a JSON object, which the response translator was given
ResponseTranslated(r) ==
    /\ NonStreamCalled(r)
    /\ backend[r].post = "ok"
    /\ backend[r].http < 400
    /\ json_loads(backend[r].body).exc = NoExc
    /\ json_loads(backend[r].body).value.k = "obj"

\* the choices of a decoded backend response, none when it has no such key
ChoicesOf(or_response) ==
    IF or_response.choices = Missing THEN <<>> ELSE or_response.choices.items

\* the message content of a choice, "" when it has no message or the
\* message no content
MessageContentOf(choice) ==
    IF choice.message = Missing THEN Str("")
    ELSE IF choice.message.content = Missing THEN Str("")
    ELSE choice.message.content

\* C14: for every backend response (a JSON object) the response translator
\* returns a client response whose content is exactly one text block and
\* whose stop_reason is end_turn; the text is the message content of the
\* first choice when there is at least one choice, later choices being
\* ignored, and the serialized whole backend response, never the empty
\* string, when there is no choice.
C14_ResponseTranslated ==
    \A r \in Reqs :
        ResponseTranslated(r) =>
            LET or_response == json_loads(backend[r].body).value
                choices == ChoicesOf(or_response)
                content == respBody[r].content
            IN /\ status[r] = 200
               /\ Len(content) = 1
               /\ content[1].type = "text"
               /\ DOMAIN content[1] = {"type", "text"}
               /\ respBody[r].stop_reason = "end_turn"
               /\ choices # <<>> =>
                    content[1].text = MessageContentOf(choices[1])
               /\ choices = <<>> =>
                    /\ content[1].text = Str(json_dumps(or_response))
                    /\ content[1].text.s # ""

\* a response with two choices gives the content of the first
C14_Witness ==
    /\ ResponseTranslated(1)
    /\ backend[1].body = RESP_two
    /\ respBody[1].content = <<[type |-> "text", text |-> Str("one")]>>
    /\ respBody[1].stop_reason = "end_turn"

----------------------------------------------------------------------------
(* Requests in flight together: every request is active, with a few        *)
(* payloads and backend replies                                            *)

ConcurrentPayloads ==
    { ClientRequest(List(<<Message(Str("user"), Str("hi"))>>), Missing,
                    stream, Missing, Missing, Missing) :
        stream \in {Missing, Bool(TRUE)} }

ConcurrentStreamBackends ==
    { [post |-> "Timeout", http |-> 0, lines |-> <<>>, end |-> "eof",
       cookies |-> {}],
      [post |-> "ok", http |-> 200, lines |-> <<L_He, L_done>>,
       end |-> "eof", cookies |-> {COOKIE}],
      [post |-> "ok", http |-> 200, lines |-> <<L_llo, L_garbage>>,
       end |-> "eof", cookies |-> {}],
      [post |-> "ok", http |-> 200, lines |-> <<L_He>>,
       end |-> "ChunkedEncodingError", cookies |-> {}] }

ConcurrentNonStreamBackends ==
    { [post |-> "ConnectionError", http |-> 0, body |-> "",
       jsonError |-> "JSONDecodeError", cookies |-> {}],
      [post |-> "ok", http |-> 200, body |-> RESP_hello,
       jsonError |-> "JSONDecodeError", cookies |-> {COOKIE}],
      [post |-> "ok", http |-> 200, body |-> RESP_two,
       jsonError |-> "JSONDecodeError", cookies |-> {}],
      [post |-> "ok", http |-> 200, body |-> RESP_html,
       jsonError |-> "RequestsJSONDecodeError", cookies |-> {}] }

InitC ==
    /\ pc = [r \in Reqs |-> "received"]
    /\ payload \in [Reqs -> ConcurrentPayloads]
    /\ or_body = [r \in Reqs |-> EmptyRec]
    /\ backend = [r \in Reqs |-> EmptyRec]
    /\ calls = [r \in Reqs |-> 0]
    /\ conn = [r \in Reqs |-> "none"]
    /\ gen = [r \in Reqs |-> "none"]
    /\ cursor = [r \in Reqs |-> 0]
    /\ events = [r \in Reqs |-> <<>>]
    /\ status = [r \in Reqs |-> 0]
    /\ respBody = [r \in Reqs |-> EmptyRec]
    /\ crashed = [r \in Reqs |-> FALSE]
    /\ sent = [r \in Reqs |-> {}]
    /\ session = {}

\* the steps of the requests interleave; the backend answers with one of
\* the replies above
NextC ==
    \E r \in Reqs :
        \/ HandleMessages(r)
        \/ NonStreamingPostFrom(r, ConcurrentNonStreamBackends)
        \/ GenStartFrom(r, ConcurrentStreamBackends)
        \/ GenLine(r)
        \/ GenResume(r)
        \/ ClientAbort(r)

SpecC == InitC /\ [][NextC]_vars

\* what belongs to request r alone
PerRequest(r) ==
    <<pc[r], payload[r], or_body[r], backend[r], calls[r], conn[r], gen[r],
      cursor[r], events[r], status[r], respBody[r], crashed[r], sent[r]>>

\* the backend call of r was answered
Answered(r) == backend[r] # EmptyRec /\ backend[r].post = "ok"

\* what r has produced is what its own payload and its own backend reply
\* give
OwnResult(r) ==
    /\ Translated(r) =>
           or_body[r] = claude_to_openrouter_body(payload[r]).body
    /\ NonStreamCalled(r) =>
           \E now \in 0..MaxTime :
               /\ status[r] = NonStreamingResult(backend[r], now).status
               /\ respBody[r] = NonStreamingResult(backend[r], now).body
    /\ Streamed(r) =>
           /\ DeltaTexts(events[r]) =
                NonEmptyFragments(
                    SubSeq(backend[r].lines, 1,
                           Min(cursor[r], StopIndex(backend[r].lines) - 1)))
           /\ Closed(r) =>
                (IsError(LastEvent(r)) <=> StreamFailed(backend[r]))
    /\ (StreamCalled(r) /\ ~Streamed(r)) =>
           events[r] = <<ErrorEvent(IF backend[r].post # "ok"
                                    THEN backend[r].post ELSE "HTTPError")>>

\* C15 as stated: requests handled concurrently do not affect each other:
\* under every interleaving each request produces what its own payload and
\* backend reply give, and no request reads or writes state written by
\* another request, so that no backend call carries anything stored while
\* another request was handled.
C15_NoSharedState ==
    \A r \in Reqs :
        /\ OwnResult(r)
        /\ sent[r] = {}

\* C15 as amended: under every interleaving each request produces what its
\* own payload and backend reply give, and a step of one request changes
\* nothing that belongs to another; the requests share the module-level
\* session: the cookies set by the replies to all backend calls are stored
\* in it, and each backend call carries the cookies stored there at the
\* time of the call.
C15_SharedSessionOnly ==
    /\ [](/\ \A r \in Reqs : OwnResult(r)
          /\ session = UNION {backend[q].cookies :
                                q \in {x \in Reqs : Answered(x)}})
    /\ [][\E r \in Reqs :
            /\ \A q \in Reqs \ {r} : PerRequest(q)' = PerRequest(q)
            /\ calls'[r] # calls[r] => sent'[r] = session]_vars

\* while request 1 is streaming, the backend call of request 2 carried the
\* cookie that the reply to request 1 had set
C15_Witness ==
    /\ gen[1] = "at_delta"
    /\ pc[2] = "done"
    /\ backend[1].cookies = {COOKIE}
    /\ backend[2].cookies = {}
    /\ sent[1] = {}
    /\ sent[2] = {COOKIE}
    /\ status[2] = 200

\* C17: the transcoder is one-pass and holds at most one line: a step pulls
\* one line only, the deltas of all the lines pulled before it have been
\* handed to the client when it is pulled, and a line with a non-empty
\* fragment is answered in the same step by its delta, at which the
\* generator is suspended; so a delta is out before the next line, the
\* sentinel or the end of input is read.
C17_OnePass ==
    [][\A r \in Reqs :
          cursor'[r] # cursor[r] =>
              LET ls == backend[r].lines
                  line == ls[cursor[r] + 1]
              IN /\ cursor'[r] = cursor[r] + 1
                 /\ DeltaTexts(events[r]) =
                      NonEmptyFragments(SubSeq(ls, 1, cursor[r]))
                 /\ Len(events'[r]) <= Len(events[r]) + 1
                 /\ (~Stops[line] /\ Fragment[line] # Str("")) =>
                      /\ events'[r] =
                           Append(events[r], ContentDelta(Fragment[line]))
                      /\ gen'[r] = "at_delta"]_vars

\* the first delta is with the client while two lines, the sentinel among
\* them, have not been pulled
C17_Witness ==
    /\ gen[1] = "at_delta"
    /\ backend[1].lines = <<L_He, L_llo, L_done>>
    /\ cursor[1] = 1
    /\ events[1] = <<ContentDelta(Str("He"))>>
    /\ conn[1] = "open"

----------------------------------------------------------------------------
(* The transcoder on its own: one streaming request, short streams over a  *)
(* wider alphabet of lines                                                 *)

L_spaces == <<SP>>
L_indented == <<SP, DATA, SP, CHUNK_He>>
L_nodelta == <<DATA, SP, CHUNK_nodelta>>
L_nocontent == <<DATA, SP, CHUNK_nocontent>>
L_nullcontent == <<DATA, SP, CHUNK_nullcontent>>
L_nulldelta == <<DATA, SP, CHUNK_nulldelta>>

WideAlphabet == LineAlphabet \cup {L_spaces, L_indented, L_nodelta,
                                   L_nocontent, L_nullcontent, L_nulldelta}

ShortLineSeqs == UNION {[1..n -> WideAlphabet] : n \in 0..MaxShort}

WideStreamBackends ==
    { [post |-> "ok", http |-> 200, lines |-> ls, end |-> e,
       cookies |-> {}] :
        ls \in ShortLineSeqs, e \in {"eof", "ChunkedEncodingError"} }

InitS ==
    /\ pc = [r \in Reqs |-> IF r = 1 THEN "received" ELSE "idle"]
    /\ payload =
         [r \in Reqs |->
            IF r = 1
            THEN ClientRequest(List(<<Message(Str("user"), Str("hi"))>>),
                               Missing, Bool(TRUE), Missing, Missing, Missing)
            ELSE Missing]
    /\ or_body = [r \in Reqs |-> EmptyRec]
    /\ backend = [r \in Reqs |-> EmptyRec]
    /\ calls = [r \in Reqs |-> 0]
    /\ conn = [r \in Reqs |-> "none"]
    /\ gen = [r \in Reqs |-> "none"]
    /\ cursor = [r \in Reqs |-> 0]
    /\ events = [r \in Reqs |-> <<>>]
    /\ status = [r \in Reqs |-> 0]
    /\ respBody = [r \in Reqs |-> EmptyRec]
    /\ crashed = [r \in Reqs |-> FALSE]
    /\ sent = [r \in Reqs |-> {}]
    /\ session = {}

NextS ==
    \E r \in Reqs :
        \/ HandleMessages(r)
        \/ GenStartFrom(r, WideStreamBackends)
        \/ GenLine(r)
        \/ GenResume(r)
        \/ ClientAbort(r)

SpecS == InitS /\ [][NextS]_vars

\* a line from which the transcoder has nothing to forward: a blank line,
\* a line without the data: prefix, a data line whose chunk has no choices,
\* and a data line whose first choice has no fragment or an empty one
IsSilentLine(line) ==
    \/ line = <<>>
    \/ ~IsDataLine(line)
    \/ /\ ~IsSentinelLine(line)
       /\ DecodedOf(line).exc = NoExc
       /\ LET v == DecodedOf(line).value IN
          /\ v.k = "obj"
          /\ \/ v.choices \in {Missing, Null, List(<<>>)}
             \/ LET first == v.choices.items[1] IN
                /\ first.k = "obj"
                /\ \/ first.delta = Missing
                   \/ /\ first.delta.k = "obj"
                      /\ first.delta.content \in {Missing, Null, Str("")}

\* the same, tabulated over the lines of the alphabet
Silent == [line \in WideAlphabet |-> IsSilentLine(line)]

\* C18: a blank line, a non-blank line without the data: prefix, a data
\* line whose chunk has no choices and a data line whose first-choice
\* fragment is empty or absent each produce no event and do not end the
\* stream: the step that reads one leaves the events, the connection and
\* the request as they are and the loop goes on to the next line; and every
\* content-delta event carries a non-empty text.
C18_SilentLines ==
    /\ [](\A r \in Reqs : \A i \in 1..Len(events[r]) :
            IsDelta(events[r][i]) =>
                /\ events[r][i].delta.text.k = "str"
                /\ events[r][i].delta.text.s # "")
    /\ [][\A r \in Reqs :
            (/\ cursor'[r] = cursor[r] + 1
             /\ Silent[backend[r].lines[cursor[r] + 1]]) =>
                /\ events'[r] = events[r]
                /\ gen'[r] = "iter"
                /\ conn'[r] = conn[r]
                /\ pc'[r] = pc[r]
                /\ crashed'[r] = crashed[r]]_vars

\* a chunk without a fragment was read, and the delta of the next line
\* followed
C18_Witness ==
    /\ gen[1] = "at_delta"
    /\ backend[1].lines = <<L_nocontent, L_He>>
    /\ cursor[1] = 2
    /\ events[1] = <<ContentDelta(Str("He"))>>
    /\ conn[1] = "open"

\* request r was sent down the streaming path: generate() was created
StreamingPath(r) == gen[r] # "none"

\* request r was sent down the non-streaming path
NonStreamingPath(r) == pc[r] = "nonstreaming" \/ NonStreamCalled(r)

\* C19: every well-formed request takes exactly one of the two backend
\* paths, and which one is decided by the stream flag of the translated
\* body alone: the streaming path (a streamed backend call, events as the
\* response) if and only if the body carries stream = true, otherwise the
\* non-streaming path (one backend call read whole, one response); no
\* request takes both or neither.
C19_OnePathByStreamFlag ==
    \A r \in Reqs :
        (payload[r] \in WellFormedPayloads /\ pc[r] # "received") =>
            /\ Translated(r)
            /\ StreamingPath(r) # NonStreamingPath(r)
            /\ StreamingPath(r) <=>
                 ("stream" \in DOMAIN or_body[r] /\ or_body[r].stream = TRUE)
            /\ StreamingPath(r) =>
                 /\ respBody[r] = EmptyRec
                 /\ status[r] = 200
                 /\ backend[r] # EmptyRec => "lines" \in DOMAIN backend[r]
            /\ NonStreamingPath(r) =>
                 /\ events[r] = <<>>
                 /\ cursor[r] = 0
                 /\ backend[r] # EmptyRec =>
                      /\ "body" \in DOMAIN backend[r]
                      /\ respBody[r] # EmptyRec

\* a request whose flag is the number 1 is translated to stream = true and
\* has been answered by the streaming path
C19_Witness ==
    /\ payload[1] \in WellFormedPayloads
    /\ payload[1].stream = Num(1)
    /\ Translated(1)
    /\ or_body[1].stream = TRUE
    /\ gen[1] = "finished"
    /\ calls[1] = 1
    /\ respBody[1] = EmptyRec
    /\ Len(events[1]) >= 1

----------------------------------------------------------------------------
(* The model shown to the client: one request, with and without a model    *)
(* of its own, and backend replies that do or do not name their model      *)

L_model == <<DATA, SP, CHUNK_model>>

ModelPayloads ==
    { ClientRequest(List(<<Message(Str("user"), Str("hi"))>>), model, stream,
                    Missing, Missing, Missing) :
        model \in {Missing, Str("client/model"), Str(ANTHROPIC_MODEL_ID)},
        stream \in {Missing, Bool(TRUE)} }

ModelStreamBackends ==
    { [post |-> "ok", http |-> 200, lines |-> ls, end |-> "eof",
       cookies |-> {}] :
        ls \in UNION {[1..n -> {L_He, L_model, L_done, L_garbage}] :
                        n \in 0..MaxShort} }

ModelNonStreamBackends ==
    { [post |-> "ok", http |-> 401, body |-> RESP_html,
       jsonError |-> "JSONDecodeError", cookies |-> {}] }
    \cup
    { [post |-> "ok", http |-> 200, body |-> b,
       jsonError |-> "JSONDecodeError", cookies |-> {}] :
        b \in {RESP_hello, RESP_model, CHUNK_nochoices} }

InitM ==
    /\ pc = [r \in Reqs |-> IF r = 1 THEN "received" ELSE "idle"]
    /\ payload \in {[r \in Reqs |-> IF r = 1 THEN p ELSE Missing] :
                      p \in ModelPayloads}
    /\ or_body = [r \in Reqs |-> EmptyRec]
    /\ backend = [r \in Reqs |-> EmptyRec]
    /\ calls = [r \in Reqs |-> 0]
    /\ conn = [r \in Reqs |-> "none"]
    /\ gen = [r \in Reqs |-> "none"]
    /\ cursor = [r \in Reqs |-> 0]
    /\ events = [r \in Reqs |-> <<>>]
    /\ status = [r \in Reqs |-> 0]
    /\ respBody = [r \in Reqs |-> EmptyRec]
    /\ crashed = [r \in Reqs |-> FALSE]
    /\ sent = [r \in Reqs |-> {}]
    /\ session = {}

NextM ==
    \E r \in Reqs :
        \/ HandleMessages(r)
        \/ NonStreamingPostFrom(r, ModelNonStreamBackends)
        \/ GenStartFrom(r, ModelStreamBackends)
        \/ GenLine(r)
        \/ GenResume(r)
        \/ ClientAbort(r)

SpecM == InitM /\ [][NextM]_vars

\* C20: the model field of every non-streamed client response, of every
\* content-delta event and of every message-terminal event is
\* ANTHROPIC_MODEL_ID, whatever model the client asked for and whatever
\* model the backend's reply names.
C20_ModelIsConstant ==
    \A r \in Reqs :
        /\ (NonStreamCalled(r) /\ status[r] = 200) =>
               respBody[r].model = ANTHROPIC_MODEL_ID
        /\ \A i \in 1..Len(events[r]) :
               "type" \in DOMAIN events[r][i] =>
                   events[r][i].model = ANTHROPIC_MODEL_ID

\* the client asked for client/model, the backend's reply names
\* openai/gpt-oss-120b, the response names neither
C20_Witness ==
    /\ Translated(1)
    /\ payload[1].model = Str("client/model")
    /\ or_body[1].model = Str("client/model")
    /\ NonStreamCalled(1)
    /\ backend[1].body = RESP_model
    /\ status[1] = 200
    /\ respBody[1].model = ANTHROPIC_MODEL_ID

====
